---- MODULE Spec2Model ----
(***************************************************************************)
(* A model of the rdbus wire-protocol core: the alignment-aware binary     *)
(* marshaller (src/message.rs), the type-signature validator               *)
(* (src/type_sig.rs) and the four name validators (src/names.rs).          *)
(*                                                                         *)
(* Bytes are naturals in 0..255; byte strings are sequences of bytes.      *)
(* A u64 is kept as its two 32-bit halves [hi, lo], since (i >> 32) is hi; *)
(* so is a usize (a length), whose hi half is 0 on a 32-bit build.         *)
(***************************************************************************)
EXTENDS Integers, Sequences, FiniteSets, TLC

VARIABLES
    data,       \* Message.data: the bytes marshalled so far
    pre,        \* Message.data as it was before the last append
    lastOp,     \* what the last append was given: [kind, s, v]
    lastOk,     \* whether the last append returned Ok
    trace,      \* what the last append did: its align_to calls and scalar writes
    appends,    \* number of append calls made
    ptrBytes,   \* size_of::<usize>() of the build (4 or 8)
    sig,        \* type_sig: the string given to Type::from_str
    sigRes,     \* type_sig: what from_str returned
    b,          \* names: the byte slice given to from_bytes
    nameKind,   \* names: which validator ran
    nameRes     \* names: what it returned

vars == <<data, pre, lastOp, lastOk, trace, appends, ptrBytes,
          sig, sigRes, b, nameKind, nameRes>>

msgVars == <<data, pre, lastOp, lastOk, trace, appends, ptrBytes>>
sigVars == <<sig, sigRes>>
nameVars == <<b, nameKind, nameRes>>

(***************************************************************************)
(* Bounds of the model                                                     *)
(***************************************************************************)
MaxAppends == 3
MaxArrayLen == 2
MaxSigLen == 6
MaxNameLen == 5

(***************************************************************************)
(* Helpers over sequences                                                  *)
(***************************************************************************)
Zeros(n) == [i \in 1..n |-> 0]

RECURSIVE SeqsUpTo(_, _)
SeqsUpTo(S, n) ==
    IF n = 0 THEN {<<>>}
    ELSE LET shorter == SeqsUpTo(S, n - 1)
         IN shorter \cup {Append(q, x) : q \in {r \in shorter : Len(r) = n - 1}, x \in S}

(***************************************************************************)
(* src/message.rs                                                          *)
(***************************************************************************)

\* The usize of a small number n.
USize(n) == [hi |-> 0, lo |-> n]

\* v * k of a usize v and a small k, by 16-bit limbs of v.lo.
WideMul(v, k) ==
    LET p0 == (v.lo % 65536) * k
        p1 == (v.lo \div 65536) * k + (p0 \div 65536)
    IN [hi |-> v.hi * k + (p1 \div 65536), lo |-> (p1 % 65536) * 65536 + (p0 % 65536)]

TryCast_Truncating(v) == [ok |-> TRUE, v |-> v.lo]

\* try_cast: ::std::u32::MAX is 2^32 - 1, so v > u32::MAX exactly when the hi
\* half of v is not 0; v as u32 is the lo half.
TryCast(v) ==
    IF v.hi > 0
    THEN [ok |-> FALSE, v |-> 0]
    ELSE [ok |-> TRUE, v |-> v.lo]

LE4_BigEndian(i) ==
    << (i \div 16777216) % 256, (i \div 65536) % 256, (i \div 256) % 256, i % 256 >>

\* [i as u8, (i >> 8) as u8, (i >> 16) as u8, (i >> 24) as u8]
LE4(i) == << i % 256, (i \div 256) % 256, (i \div 65536) % 256, (i \div 16777216) % 256 >>

\* The value of four little-endian bytes of a buffer, first byte at offset at.
ReadLE4(d, at) == d[at + 1] + 256 * d[at + 2] + 65536 * d[at + 3] + 16777216 * d[at + 4]

\* A message under construction: its data, whether encoding is still Ok, and
\* the record of align_to calls and scalar writes made on it.
NewMsg(d) == [data |-> d, ok |-> TRUE, trace |-> <<>>]

\* Message::align_to: rem = len % align; push rem zero bytes.
AlignTo(m, align) ==
    LET rem == Len(m.data) % align
    IN [m EXCEPT !.data = m.data \o Zeros(rem),
                 !.trace = Append(m.trace,
                     [ev |-> "pad", at |-> Len(m.data), k |-> align, n |-> rem])]

\* extend(&v) of a scalar's bytes v, after align_to(v.len())
WriteScalar(m, bytes) ==
    LET a == AlignTo(m, Len(bytes))
    IN [a EXCEPT !.data = a.data \o bytes,
                 !.trace = Append(a.trace,
                     [ev |-> "scalar", at |-> Len(a.data), k |-> Len(bytes), n |-> 0])]

\* impl DBusType for u32
EncodeU32(m, i) == WriteScalar(m, LE4(i))

\* impl DBusType for u64
EncodeU64(m, i) == WriteScalar(m, LE4(i.lo) \o LE4(i.hi))

\* impl DBusType for bool
EncodeBool(m, v) == EncodeU32(m, IF v THEN 1 ELSE 0)

\* A str of 2^32 bytes, one more than u32::MAX. Its bytes cannot be written
\* out; this marker stands for them.
LongStr == <<-1>>

\* str::len()
StrLen(s) == IF s = LongStr THEN [hi |-> 1, lo |-> 0] ELSE USize(Len(s))

\* impl DBusType for str
EncodeStr(m, s) ==
    LET c == TryCast(StrLen(s))
    IN IF ~c.ok THEN [m EXCEPT !.ok = FALSE]
       ELSE LET p == EncodeU32(m, c.v)
            IN [p EXCEPT !.data = p.data \o s \o <<0>>]

\* ::std::mem::size_of::<T>() of an array's element type; a &str is a pointer
\* and a length.
SizeOf(kind, ptr) ==
    CASE kind = "u32" -> 4
      [] kind = "u64" -> 8
      [] kind = "bool" -> 1
      [] kind = "str" -> 2 * ptr

\* ::std::mem::size_of_val(self) of a slice of n elements
SizeOfVal(kind, n, ptr) == WideMul(n, SizeOf(kind, ptr))

\* e.encode_into(msg) for an element of the given type
EncodeElem(m, kind, e) ==
    CASE kind = "u32" -> EncodeU32(m, e)
      [] kind = "u64" -> EncodeU64(m, e)
      [] kind = "bool" -> EncodeBool(m, e)
      [] kind = "str" -> EncodeStr(m, e)

\* for e in self.iter() { try!(e.encode_into(msg)); }
RECURSIVE EncodeElems(_, _, _)
EncodeElems(m, kind, elems) ==
    IF elems = <<>> \/ ~m.ok THEN m
    ELSE EncodeElems(EncodeElem(m, kind, Head(elems)), kind, Tail(elems))

\* impl<T: DBusType> DBusType for [T], for a slice of n elements
EncodeSlice(m, kind, n, elems, ptr) ==
    LET c == TryCast(SizeOfVal(kind, n, ptr))
    IN IF ~c.ok THEN [m EXCEPT !.ok = FALSE]
       ELSE EncodeElems(EncodeU32(m, c.v), kind, elems)

\* impl<T: DBusType> DBusType for [T]
EncodeArray(m, kind, elems, ptr) == EncodeSlice(m, kind, USize(Len(elems)), elems, ptr)

(***************************************************************************)
(* Values appended by the model                                            *)
(***************************************************************************)
\* 24 and 0x01020304
U32Vals == {24, 16909060}
\* 5 and 0x0506070801020304
U64Vals == {[hi |-> 0, lo |-> 5], [hi |-> 84281096, lo |-> 16909060]}
BoolVals == {TRUE, FALSE}
\* "", "+", "foo", "bar"
StrVals == {<<>>, <<43>>, <<102, 111, 111>>, <<98, 97, 114>>}
\* the elements arrays are made of: 24, 5, true, "+"
ElemKinds == {"u32", "u64", "bool", "str"}
ElemVals(kind) ==
    CASE kind = "u32" -> {24}
      [] kind = "u64" -> {[hi |-> 0, lo |-> 5]}
      [] kind = "bool" -> {TRUE}
      [] kind = "str" -> {<<43>>}

\* Element counts of slices of more than u32::MAX bytes on a 64-bit build:
\* 2^30 u32s, 2^29 u64s, 2^32 bools, 2^28 &strs. Their elements cannot be
\* written out; the slice is given by its count alone.
LongCount(kind) ==
    CASE kind = "u32" -> [hi |-> 0, lo |-> 1073741824]
      [] kind = "u64" -> [hi |-> 0, lo |-> 536870912]
      [] kind = "bool" -> [hi |-> 1, lo |-> 0]
      [] kind = "str" -> [hi |-> 0, lo |-> 268435456]

NoVal == [hi |-> 0, lo |-> 0]
NoOp == [kind |-> "none", s |-> <<>>, v |-> NoVal]

\* The parts of the state a specification does not use stay as they start.
NoSig == [tag |-> "none", c |-> "", d |-> 0]
NoName == [ok |-> FALSE, err |-> "none"]
IdleMsg ==
    /\ data = <<>>
    /\ pre = <<>>
    /\ lastOp = NoOp
    /\ lastOk = TRUE
    /\ trace = <<>>
    /\ appends = 0
    /\ ptrBytes = 8
IdleSig == sig = <<>> /\ sigRes = NoSig
IdleName == b = <<>> /\ nameKind = "none" /\ nameRes = NoName

\* Message::new()
InitMsg ==
    /\ data = <<>>
    /\ pre = <<>>
    /\ lastOp = NoOp
    /\ lastOk = TRUE
    /\ trace = <<>>
    /\ appends = 0
    /\ ptrBytes \in {4, 8}
    /\ IdleSig
    /\ IdleName

\* Message::append: value.encode_into(self)
Appended(m, kind, s, v) ==
    /\ appends < MaxAppends
    /\ appends' = appends + 1
    /\ pre' = data
    /\ data' = m.data
    /\ lastOk' = m.ok
    /\ trace' = m.trace
    /\ lastOp' = [kind |-> kind, s |-> s, v |-> v]
    /\ UNCHANGED <<ptrBytes, sigVars, nameVars>>

AppendU32 == \E i \in U32Vals : Appended(EncodeU32(NewMsg(data), i), "u32", <<>>, USize(i))

AppendU64 == \E i \in U64Vals : Appended(EncodeU64(NewMsg(data), i), "u64", <<>>, i)

AppendBool ==
    \E v \in BoolVals :
        Appended(EncodeBool(NewMsg(data), v), "bool", <<>>, [hi |-> 0, lo |-> IF v THEN 1 ELSE 0])

AppendStr == \E s \in StrVals : Appended(EncodeStr(NewMsg(data), s), "str", s, NoVal)

AppendArray ==
    \E kind \in ElemKinds :
        \E elems \in SeqsUpTo(ElemVals(kind), MaxArrayLen) :
            Appended(EncodeArray(NewMsg(data), kind, elems, ptrBytes), "array_" \o kind, <<>>, NoVal)

\* Message::append of a str longer than u32::MAX; a usize holds such a
\* length only on a 64-bit build.
AppendLongStr ==
    /\ ptrBytes = 8
    /\ Appended(EncodeStr(NewMsg(data), LongStr), "long_str", <<>>, NoVal)

\* Message::append of a slice of more than u32::MAX bytes
AppendLongArray ==
    /\ ptrBytes = 8
    /\ \E kind \in ElemKinds :
           Appended(EncodeSlice(NewMsg(data), kind, LongCount(kind), <<>>, ptrBytes),
                    "long_array", <<>>, NoVal)

\* Message::append of &["+", s][..] with s longer than u32::MAX
AppendArrayOfLongStr ==
    /\ ptrBytes = 8
    /\ Appended(EncodeArray(NewMsg(data), "str", <<(<<43>>), LongStr>>, ptrBytes),
                "array_of_long_str", <<>>, NoVal)

NextMsg ==
    \/ AppendU32 \/ AppendU64 \/ AppendBool \/ AppendStr \/ AppendArray
    \/ AppendLongStr \/ AppendLongArray \/ AppendArrayOfLongStr

SpecMsg == InitMsg /\ [][NextMsg]_vars

(***************************************************************************)
(* Claims about the marshaller                                             *)
(***************************************************************************)
Scalars == SelectSeq(trace, LAMBDA e : e.ev = "scalar")
IsArrayOp == lastOp.kind \in {"array_" \o k : k \in ElemKinds}
MinPad(len, k) == (k - (len % k)) % k

\* C1: in every append, each align_to(k) on a buffer of length len appends
\* exactly (k - len % k) % k bytes, all zero, and so every scalar of natural
\* alignment k has its first payload byte at an offset that is a multiple of k.
C1_AlignmentInvariant ==
    \A i \in 1..Len(trace) :
        LET e == trace[i]
        IN /\ e.ev = "scalar" => e.at % e.k = 0
           /\ e.ev = "pad" =>
                 /\ e.n = MinPad(e.at, e.k)
                 /\ \A j \in 1..e.n : data[e.at + j] = 0

\* What the code does keep: the padding bytes are zero and fewer than k.
PaddingIsZeroAndShort ==
    \A i \in 1..Len(trace) :
        LET e == trace[i]
        IN e.ev = "pad" => /\ e.n < e.k
                           /\ \A j \in 1..e.n : data[e.at + j] = 0

\* C2: the u32 length prefix of an encoded array equals the number of bytes
\* of encoded element data after it, the padding between the prefix and the
\* first element not counted.
C2_ArrayPrefixIsEncodedSize ==
    (IsArrayOp /\ lastOk) =>
        LET prefixAt == Scalars[1].at
            elemsAt == IF Len(Scalars) > 1 THEN Scalars[2].at ELSE Len(data)
        IN ReadLE4(data, prefixAt) = Len(data) - elemsAt

\* C10: encoding a string s appends zero padding up to a 4-byte boundary, the
\* u32 little-endian byte count of s, the bytes of s and exactly one nul.
C10_StringLayout ==
    (lastOp.kind = "str" /\ lastOk) =>
        data = pre \o Zeros(MinPad(Len(pre), 4)) \o LE4(Len(lastOp.s)) \o lastOp.s \o <<0>>

AddedPayload(n) ==
    /\ Len(data) >= Len(pre) + n
    /\ SubSeq(data, 1, Len(pre)) = pre
    /\ \A i \in (Len(pre) + 1)..(Len(data) - n) : data[i] = 0
    /\ \A i \in (Len(data) - n + 1)..Len(data) : data[i] \in 0..255

\* C13: a u32 is appended as exactly 4 bytes and a u64 as exactly 8 bytes,
\* least-significant byte first, after the alignment padding; a bool is
\* appended exactly as the u32 1 (true) or 0 (false); u32(24) then bool(true)
\* into an empty buffer give [24,0,0,0] and then [24,0,0,0,1,0,0,0].
C13_ScalarEncoding ==
    /\ lastOp.kind \in {"u32", "bool"} =>
          /\ lastOk
          /\ AddedPayload(4)
          /\ ReadLE4(data, Len(data) - 4) = lastOp.v.lo
    /\ lastOp.kind = "bool" => lastOp.v.lo \in {0, 1}
    /\ lastOp.kind = "u64" =>
          /\ lastOk
          /\ AddedPayload(8)
          /\ ReadLE4(data, Len(data) - 8) = lastOp.v.lo
          /\ ReadLE4(data, Len(data) - 4) = lastOp.v.hi
    /\ (lastOp.kind = "u32" /\ lastOp.v.lo = 24 /\ pre = <<>>) => data = <<24, 0, 0, 0>>
    /\ (lastOp.kind = "bool" /\ lastOp.v.lo = 1 /\ pre = <<24, 0, 0, 0>>) =>
          data = <<24, 0, 0, 0, 1, 0, 0, 0>>

\* C13's case: test::append, u32(24) and then bool(true) into an empty buffer.
C13_Witness ==
    /\ appends = 2
    /\ lastOp.kind = "bool"
    /\ lastOp.v.lo = 1
    /\ pre = <<24, 0, 0, 0>>
    /\ data = <<24, 0, 0, 0, 1, 0, 0, 0>>

\* "foo", "+", "bar" into an empty buffer (test::spec_example_1)
SpecExample1 ==
    << 3, 0, 0, 0, 102, 111, 111, 0,
       1, 0, 0, 0, 43, 0, 0, 0,
       3, 0, 0, 0, 98, 97, 114, 0 >>
SpecExample1Reached == data = SpecExample1 /\ lastOp.kind = "str" /\ appends = 3

\* &[5u64][..] into an empty buffer (test::spec_example_marshalling_containers)
SpecExampleContainers == << 8, 0, 0, 0, 0, 0, 0, 0, 5, 0, 0, 0, 0, 0, 0, 0 >>
SpecExampleContainersReached ==
    data = SpecExampleContainers /\ lastOp.kind = "array_u64" /\ appends = 1

(***************************************************************************)
(* src/type_sig.rs                                                         *)
(***************************************************************************)

\* enum TypeError, and Ok
SigOk == [tag |-> "Ok", c |-> "", d |-> 0]
Invalid(ch) == [tag |-> "Invalid", c |-> ch, d |-> 0]
ParenUnclosed(n) == [tag |-> "ParenUnclosed", c |-> "", d |-> n]
ElementRequired == [tag |-> "ElementRequired", c |-> "", d |-> 0]
ParenClosedBeforeOpen == [tag |-> "ParenClosedBeforeOpen", c |-> "", d |-> 0]

\* 'y'|'b'|'n'|'q'|'i'|'u'|'x'|'t'|'d'|'h'|'s'|'o'|'g'
BasicCodes == {"y", "b", "n", "q", "i", "u", "x", "t", "d", "h", "s", "o", "g"}

FromStrEnd_ElementFirst(dep, er) ==
    IF er THEN ElementRequired
    ELSE IF dep # 0 THEN ParenUnclosed(dep)
    ELSE SigOk

\* Type::from_str after the loop
FromStrEnd(dep, er) ==
    IF dep # 0 THEN ParenUnclosed(dep)
    ELSE IF er THEN ElementRequired
    ELSE SigOk

\* Type::from_str's loop over v.chars(), from the i-th character on
RECURSIVE FromStrLoop(_, _, _, _)
FromStrLoop(v, i, dep, er) ==
    IF i > Len(v) THEN FromStrEnd(dep, er)
    ELSE LET ch == v[i]
         IN CASE ch \in BasicCodes -> FromStrLoop(v, i + 1, dep, FALSE)
              [] ch = "a" -> FromStrLoop(v, i + 1, dep, TRUE)
              [] ch = "(" -> FromStrLoop(v, i + 1, dep + 1, er)
              [] ch = ")" -> IF dep = 0 THEN ParenClosedBeforeOpen
                             ELSE FromStrLoop(v, i + 1, dep - 1, FALSE)
              [] OTHER -> Invalid(ch)

\* Type::from_str: depth = 0, element_required = false
FromStr(v) == FromStrLoop(v, 1, 0, FALSE)

\* The strings given to from_str: every string of at most MaxSigLen of these
\* characters, and the strings of test::full_strings and of the claims.
SigChars == {"i", "a", "(", ")", "?"}
SigExamples == {
    <<>>,
    <<"i", "i">>,
    <<"a", "i", "a", "i">>,
    <<"(", "i", "i", ")", "(", "i", "i", ")">>,
    <<"a", "a">>,
    <<"(", "i", "i">>,
    <<"i", "i", ")">>,
    <<"(", "a", ")">>,
    <<"(", "i", "a", ")", "i">>,
    <<"a", "{", "s", "v", "}">>,
    <<"y", "b", "n", "q", "i", "u", "x", "t", "d", "h", "s", "o", "g">> }
SigInputs == SeqsUpTo(SigChars, MaxSigLen) \cup SigExamples

InitSig ==
    /\ sig \in SigInputs
    /\ sigRes = NoSig
    /\ IdleMsg
    /\ IdleName

TypeFromStr ==
    /\ sigRes = NoSig
    /\ sigRes' = FromStr(sig)
    /\ UNCHANGED <<sig, msgVars, nameVars>>

NextSig == TypeFromStr

SpecSig == InitSig /\ [][NextSig]_vars

(***************************************************************************)
(* Claims about the type-signature validator                               *)
(***************************************************************************)
SigAllowed == BasicCodes \cup {"a", "(", ")"}
Count(s, n, ch) == Cardinality({i \in 1..n : s[i] = ch})
\* parens open after the first n characters
OpenAfter(s, n) == Count(s, n, "(") - Count(s, n, ")")
\* the i-th character stops the pass
Stops(s, i) == s[i] \notin SigAllowed \/ (s[i] = ")" /\ OpenAfter(s, i - 1) = 0)
StopsAt(s) == {i \in 1..Len(s) : Stops(s, i)}
FirstStop(s) == CHOOSE i \in StopsAt(s) : \A j \in StopsAt(s) : i <= j

\* The classification C4 states, read off the string as a whole.
Classify(s) ==
    IF StopsAt(s) # {}
    THEN IF s[FirstStop(s)] \notin SigAllowed
         THEN Invalid(s[FirstStop(s)])
         ELSE ParenClosedBeforeOpen
    ELSE IF OpenAfter(s, Len(s)) > 0 THEN ParenUnclosed(OpenAfter(s, Len(s)))
    ELSE IF Len(s) > 0 /\ s[Len(s)] = "a" THEN ElementRequired
    ELSE SigOk

SigDone == sigRes # NoSig

\* C4: from_str returns Invalid(c) for the first character outside the codes,
\* ParenClosedBeforeOpen at the first ')' met with depth 0, whichever comes
\* first; else ParenUnclosed(d) when d > 0 parens stay open, ElementRequired
\* when the string ends with depth 0 right after an 'a', and Ok otherwise; so
\* "", "ii", "aiai", "(ii)(ii)" succeed and "aa", "(ii", "ii)" fail with
\* ElementRequired, ParenUnclosed(1), ParenClosedBeforeOpen.
C4_FromStrClassifies ==
    SigDone =>
        /\ sigRes = Classify(sig)
        /\ sig \in {<<>>, <<"i", "i">>, <<"a", "i", "a", "i">>,
                    <<"(", "i", "i", ")", "(", "i", "i", ")">>} => sigRes = SigOk
        /\ sig = <<"a", "a">> => sigRes = ElementRequired
        /\ sig = <<"(", "i", "i">> => sigRes = ParenUnclosed(1)
        /\ sig = <<"i", "i", ")">> => sigRes = ParenClosedBeforeOpen

\* C4's case: a dangling array marker inside an open paren, "(a", where the
\* order of the two final checks decides the answer.
C4_Witness == SigDone /\ sig = <<"(", "a">> /\ sigRes = ParenUnclosed(1)

\* C5: a signature in which ')' closes a paren immediately after an 'a' is
\* rejected with ElementRequired.
C5_ArrayNeedsElement ==
    (SigDone /\ \E i \in 1..(Len(sig) - 1) :
                    /\ sig[i] = "a"
                    /\ sig[i + 1] = ")"
                    /\ \A j \in 1..(i + 1) : ~Stops(sig, j))
        => sigRes = ElementRequired

\* What the code does with "(a)" and "(ia)i": it accepts them.
AcceptsEmptyArrayInParens ==
    (SigDone /\ sig \in {<<"(", "a", ")">>, <<"(", "i", "a", ")", "i">>}) => sigRes = SigOk

(***************************************************************************)
(* src/names.rs                                                            *)
(***************************************************************************)
NUL == 0
HYPHEN == 45
DOT == 46
SLASH == 47
COLON == 58
UNDERSCORE == 95
\* the length limits of from_bytes
MaxPathBytes == 255
MaxMemberBytes == 256

\* b'A'...b'Z' | b'a'...b'z'
IsLetter(c) == c \in 65..90 \/ c \in 97..122
\* b'0'...b'9'
IsDigit(c) == c \in 48..57

NameOk == [ok |-> TRUE, err |-> ""]
NameErr(e) == [ok |-> FALSE, err |-> e]

\* The first of a non-empty set of loop indices.
First(S) == CHOOSE i \in S : \A j \in S : i <= j

\* b.windows(2): window i is [b[i], b[i + 1]], prev and c of the loops
Windows(bs) == 1..(Len(bs) - 1)

\* ObjectPath::from_bytes: the loop over b.windows(2). It runs up to the first
\* window whose arm returns, and falls through when there is none.
ObjectPathLoop(bs) ==
    LET Returns(i) ==
            LET prev == bs[i]
                c == bs[i + 1]
            IN ~( \/ (c = SLASH /\ prev # SLASH)
                  \/ IsLetter(c) \/ IsDigit(c) \/ c = UNDERSCORE )
        stops == {i \in Windows(bs) : Returns(i)}
    IN IF stops = {} THEN NameErr("must be terminated")
       ELSE LET prev == bs[First(stops)]
                c == bs[First(stops) + 1]
            IN CASE c = SLASH -> NameErr("two separators")
                 [] c = NUL ->
                      IF prev = SLASH /\ Len(bs) # 2 THEN NameErr("trailing separator")
                      ELSE NameOk
                 [] OTHER -> NameErr("invalid character")

\* ObjectPath::from_bytes
ObjectPathFromBytes(bs) ==
    IF Len(bs) < 1 THEN NameErr("too short")
    ELSE IF Len(bs) > MaxPathBytes THEN NameErr("too long")
    ELSE IF bs[1] # SLASH THEN NameErr("bad first character")
    ELSE ObjectPathLoop(bs)

\* periods when the loop reaches window i: the windows before it whose c is '.'
Periods(bs, i) == Cardinality({j \in 1..(i - 1) : bs[j + 1] = DOT})

\* InterfaceName::from_bytes: the loop over b.windows(2)
InterfaceNameLoop(bs) ==
    LET Returns(i) ==
            LET prev == bs[i]
                c == bs[i + 1]
            IN ~( \/ (c = DOT /\ prev # DOT)
                  \/ IsLetter(c) \/ c = UNDERSCORE
                  \/ (IsDigit(c) /\ prev # DOT) )
        stops == {i \in Windows(bs) : Returns(i)}
    IN IF stops = {} THEN NameErr("must be terminated")
       ELSE LET prev == bs[First(stops)]
                c == bs[First(stops) + 1]
                periods == Periods(bs, First(stops))
            IN CASE c = DOT -> NameErr("two separators")
                 [] IsDigit(c) -> NameErr("element starts with digit")
                 [] c = NUL ->
                      IF prev = DOT /\ Len(bs) # 1 THEN NameErr("trailing separator")
                      ELSE IF periods < 1 THEN NameErr("fewer than 2 elements")
                      ELSE NameOk
                 [] OTHER -> NameErr("invalid character")

\* InterfaceName::from_bytes
InterfaceNameFromBytes(bs) ==
    IF Len(bs) < 1 THEN NameErr("too short")
    ELSE IF Len(bs) > MaxPathBytes THEN NameErr("too long")
    ELSE IF bs[1] = DOT THEN NameErr("leading separator")
    ELSE IF ~(IsLetter(bs[1]) \/ bs[1] = UNDERSCORE) THEN NameErr("bad first character")
    ELSE InterfaceNameLoop(bs)

\* BusName::from_bytes: the loop over b.windows(2)
BusNameLoop(bs, is_unique) ==
    LET Returns(i) ==
            LET prev == bs[i]
                c == bs[i + 1]
            IN ~( \/ (c = DOT /\ prev # DOT /\ prev # COLON)
                  \/ IsLetter(c) \/ c = UNDERSCORE \/ c = HYPHEN
                  \/ (IsDigit(c) /\ ~(prev = DOT /\ ~is_unique)) )
        stops == {i \in Windows(bs) : Returns(i)}
    IN IF stops = {} THEN NameErr("must be terminated")
       ELSE LET prev == bs[First(stops)]
                c == bs[First(stops) + 1]
                periods == Periods(bs, First(stops))
            IN CASE c = DOT -> NameErr("empty element")
                 [] IsDigit(c) -> NameErr("element starts with digit")
                 [] c = NUL ->
                      IF prev = DOT /\ Len(bs) # 1 THEN NameErr("trailing separator")
                      ELSE IF periods < 1 THEN NameErr("fewer than 2 elements")
                      ELSE NameOk
                 [] OTHER -> NameErr("invalid character")

\* BusName::from_bytes
BusNameFromBytes(bs) ==
    IF Len(bs) < 1 THEN NameErr("too short")
    ELSE IF Len(bs) > MaxPathBytes THEN NameErr("too long")
    ELSE IF bs[1] = DOT THEN NameErr("leading separator")
    ELSE IF IsLetter(bs[1]) \/ bs[1] = UNDERSCORE \/ bs[1] = HYPHEN
         THEN BusNameLoop(bs, FALSE)
    ELSE IF bs[1] = COLON THEN BusNameLoop(bs, TRUE)
    ELSE NameErr("bad first character")

\* MemberName::from_bytes: the loop over the bytes of b
MemberNameLoop(bs) ==
    LET Returns(i) == ~(IsLetter(bs[i]) \/ IsDigit(bs[i]) \/ bs[i] = UNDERSCORE)
        stops == {i \in 1..Len(bs) : Returns(i)}
    IN IF stops = {} THEN NameErr("must be terminated")
       ELSE IF bs[First(stops)] = NUL THEN NameOk
       ELSE NameErr("invalid character")

\* MemberName::from_bytes
MemberNameFromBytes(bs) ==
    IF Len(bs) < 2 THEN NameErr("too short")
    ELSE IF Len(bs) > MaxMemberBytes THEN NameErr("too long")
    ELSE IF ~(IsLetter(bs[1]) \/ bs[1] = UNDERSCORE) THEN NameErr("bad first character")
    ELSE MemberNameLoop(bs)

\* The slices given to from_bytes: every sequence of at most MaxNameLen of
\* these bytes (nul / . : - a 0 ?), and the inputs of the tests t_path,
\* t_interface, t_busname and t_member_name.
NameBytes == {0, 47, 46, 58, 45, 97, 48, 63}
NameExamples == {
    <<47, 104, 101, 108, 108, 111, 0>>,
    <<47, 104, 101, 108, 108, 111, 47, 0>>,
    <<47, 104, 101, 108, 108, 111, 47, 103, 111, 111, 100, 98, 121, 101, 47,
      48, 49, 51, 47, 52, 47, 72, 65, 0>>,
    <<47, 104, 101, 108, 108, 111, 47, 103, 111, 111, 100, 98, 121, 101, 47,
      48, 49, 51, 47, 52, 63, 47, 72, 65, 0>>,
    <<49, 50, 0>>,
    <<97, 46, 98, 46, 51, 0>>,
    <<65, 46, 90, 46, 120, 97, 114, 46, 121, 102, 100, 115, 46, 100, 51, 52, 57, 48, 0>>,
    <<97, 46, 98, 46, 99, 0>>,
    <<97, 46, 98, 46, 99, 63, 0>>,
    <<97, 46, 98, 45, 99, 46, 97, 48, 0>>,
    <<97, 46, 98, 45, 99, 46, 48, 97, 0>>,
    <<58, 97, 46, 98, 45, 99, 0>>,
    <<58, 97, 46, 98, 45, 99, 46, 49, 0>>,
    <<97, 98, 99, 49, 51, 0>>,
    <<97, 98, 99, 46, 49, 51, 0>>,
    <<49, 50, 51, 52, 97, 98, 99, 0>>,
    <<97, 98, 99>> }
\* Slices at the length limits of from_bytes: one byte under the limit of
\* 255, at it, at MemberName's limit of 256 and one over. Each starts like a
\* name of one of the four kinds ("/", "a.", ":a.", "a") and goes on in 'a's;
\* the nul is the last byte, or comes early and more 'a's follow it.
LimitLens == {MaxPathBytes - 1, MaxPathBytes, MaxMemberBytes, MaxMemberBytes + 1}
NameStarts == {<<47>>, <<97, 46>>, <<58, 97, 46>>, <<97>>}
FilledName(start, total) == start \o [i \in 1..(total - Len(start) - 1) |-> 97] \o <<0>>
EarlyNulName(start, total) ==
    start \o <<97, 0>> \o [i \in 1..(total - Len(start) - 2) |-> 97]
LimitInputs ==
    {FilledName(s, n) : s \in NameStarts, n \in LimitLens}
        \cup {EarlyNulName(s, n) : s \in NameStarts, n \in LimitLens}

NameInputs == SeqsUpTo(NameBytes, MaxNameLen) \cup NameExamples \cup LimitInputs

InitNames ==
    /\ b \in NameInputs
    /\ nameKind = "none"
    /\ nameRes = NoName
    /\ IdleMsg
    /\ IdleSig

Validated(kind, res) ==
    /\ nameKind = "none"
    /\ nameKind' = kind
    /\ nameRes' = res
    /\ UNCHANGED <<b, msgVars, sigVars>>

ObjectPath_from_bytes == Validated("ObjectPath", ObjectPathFromBytes(b))
InterfaceName_from_bytes == Validated("InterfaceName", InterfaceNameFromBytes(b))
BusName_from_bytes == Validated("BusName", BusNameFromBytes(b))
MemberName_from_bytes == Validated("MemberName", MemberNameFromBytes(b))

NextNames ==
    \/ ObjectPath_from_bytes
    \/ InterfaceName_from_bytes
    \/ BusName_from_bytes
    \/ MemberName_from_bytes

SpecNames == InitNames /\ [][NextNames]_vars

(***************************************************************************)
(* Claims about the name validators                                        *)
(***************************************************************************)
\* the last byte is nul and no other byte is
NulTerminated(bs) ==
    /\ Len(bs) >= 1
    /\ bs[Len(bs)] = NUL
    /\ \A i \in 1..(Len(bs) - 1) : bs[i] # NUL
HasNul(bs) == \E i \in 1..Len(bs) : bs[i] = NUL

\* [A-Za-z0-9_]
IsWordChar(c) == IsLetter(c) \/ IsDigit(c) \/ c = UNDERSCORE
WordChars == {c \in 0..255 : IsWordChar(c)}

\* Elements of bs[first..n] separated by single sep bytes: at least one byte,
\* every byte a separator or of the class, no empty element.
Elements(bs, first, n, sep, class) ==
    /\ n >= first
    /\ \A i \in first..n : bs[i] = sep \/ bs[i] \in class
    /\ bs[first] # sep
    /\ bs[n] # sep
    /\ \A i \in first..(n - 1) : ~(bs[i] = sep /\ bs[i + 1] = sep)
SepCount(bs, first, n, sep) == Cardinality({i \in first..n : bs[i] = sep})
\* no element of bs[first..n] begins with a digit
NoDigitStart(bs, first, n, sep) ==
    \A i \in first..n : (i = first \/ bs[i - 1] = sep) => ~IsDigit(bs[i])

\* "/" nul, or one or more of "/" and at least one of [A-Za-z0-9_], then nul
IsObjectPath(bs) ==
    /\ NulTerminated(bs)
    /\ LET n == Len(bs) - 1
       IN /\ n >= 1
          /\ bs[1] = SLASH
          /\ n = 1 \/ ( /\ \A i \in 1..n : bs[i] = SLASH \/ IsWordChar(bs[i])
                        /\ bs[n] # SLASH
                        /\ \A i \in 1..(n - 1) : ~(bs[i] = SLASH /\ bs[i + 1] = SLASH) )

\* two or more elements of [A-Za-z0-9_], none beginning with a digit, then nul
IsInterfaceName(bs) ==
    /\ NulTerminated(bs)
    /\ LET n == Len(bs) - 1
       IN /\ Elements(bs, 1, n, DOT, WordChars)
          /\ SepCount(bs, 1, n, DOT) >= 1
          /\ NoDigitStart(bs, 1, n, DOT)

\* [A-Za-z0-9_-]
BusChars == WordChars \cup {HYPHEN}

\* an optional ':' at position 0, two or more elements of [A-Za-z0-9_-], none
\* beginning with a digit unless the name begins with ':', then nul
IsBusName(bs) ==
    /\ NulTerminated(bs)
    /\ LET n == Len(bs) - 1
           unique == bs[1] = COLON
           first == IF unique THEN 2 ELSE 1
       IN /\ Elements(bs, first, n, DOT, BusChars)
          /\ SepCount(bs, first, n, DOT) >= 1
          /\ unique \/ NoDigitStart(bs, first, n, DOT)

\* one or more of [A-Za-z0-9_], the first not a digit, then nul
IsMemberName(bs) ==
    /\ NulTerminated(bs)
    /\ LET n == Len(bs) - 1
       IN /\ n >= 1
          /\ \A i \in 1..n : IsWordChar(bs[i])
          /\ ~IsDigit(bs[1])

IsName(kind, bs) ==
    CASE kind = "ObjectPath" -> IsObjectPath(bs)
      [] kind = "InterfaceName" -> IsInterfaceName(bs)
      [] kind = "BusName" -> IsBusName(bs)
      [] kind = "MemberName" -> IsMemberName(bs)
      [] OTHER -> FALSE

NameDone == nameKind # "none"

\* C3: whenever from_bytes(b) returns Ok, the last byte of b is nul and b
\* contains no other nul.
C3_OkIsNulTerminated == (NameDone /\ nameRes.ok) => NulTerminated(b)

\* C6: ObjectPath::from_bytes(b) returns Ok if and only if b is "/" nul, or
\* one or more elements "/" [A-Za-z0-9_]+ followed by the terminating nul.
C6_ObjectPathIffGrammar == nameKind = "ObjectPath" => (nameRes.ok <=> IsObjectPath(b))

\* C7: BusName::from_bytes(b) returns Ok only if b is at least two non-empty
\* elements of [A-Za-z0-9_-] separated by single '.', nul-terminated, with no
\* element beginning with a digit unless b starts with ':', and ':' nowhere
\* but at position 0.
C7_BusNameOkOnlyIfGrammar == (nameKind = "BusName" /\ nameRes.ok) => IsBusName(b)

\* C8: InterfaceName::from_bytes(b) returns Ok if and only if b is at least
\* two non-empty elements of [A-Za-z0-9_] separated by single '.', none
\* beginning with a digit, followed by the terminating nul.
C8_InterfaceNameIffGrammar ==
    nameKind = "InterfaceName" => (nameRes.ok <=> IsInterfaceName(b))

\* C9: MemberName::from_bytes(b) returns Ok if and only if b is at least one
\* character of [A-Za-z0-9_], the first not a digit, followed by the
\* terminating nul.
C9_MemberNameIffGrammar == nameKind = "MemberName" => (nameRes.ok <=> IsMemberName(b))

\* the longest slice from_bytes of a kind accepts
MaxBytes(kind) == IF kind = "MemberName" THEN MaxMemberBytes ELSE MaxPathBytes

\* C12: every name a validator accepts is a nul-terminated byte sequence of
\* at most 255 bytes (256 for MemberName); every longer input is rejected,
\* and a grammar-valid input of exactly that many bytes is accepted.
C12_AcceptedIsTerminatedAndShort ==
    NameDone =>
        /\ nameRes.ok => (NulTerminated(b) /\ Len(b) <= MaxBytes(nameKind))
        /\ Len(b) > MaxBytes(nameKind) => ~nameRes.ok
        /\ (IsName(nameKind, b) /\ Len(b) = MaxBytes(nameKind)) => nameRes.ok

\* What the code does keep of C12: the limits on the length of b.
NameLengthLimits ==
    NameDone =>
        /\ nameRes.ok => Len(b) <= MaxBytes(nameKind)
        /\ Len(b) > MaxBytes(nameKind) => nameRes = NameErr("too long")
        /\ (IsName(nameKind, b) /\ Len(b) = MaxBytes(nameKind)) => nameRes.ok

\* A name of exactly the longest length, accepted.
LimitNameAccepted(kind) ==
    nameKind = kind /\ nameRes.ok /\ IsName(kind, b) /\ Len(b) = MaxBytes(kind)
LimitPathAccepted == LimitNameAccepted("ObjectPath")
LimitInterfaceAccepted == LimitNameAccepted("InterfaceName")
LimitBusAccepted == LimitNameAccepted("BusName")
LimitMemberAccepted == LimitNameAccepted("MemberName")

\* What the code does keep: on a slice within the length limit whose only
\* nul, if any, is its last byte, each validator accepts exactly its grammar,
\* and a slice with no nul is rejected.
GrammarWhenNulIsLast ==
    (NameDone /\ Len(b) <= MaxBytes(nameKind) /\ (NulTerminated(b) \/ ~HasNul(b)))
        => (nameRes.ok <=> IsName(nameKind, b))

\* The outcomes of the tests t_path, t_interface, t_busname, t_member_name
\* that the claims name.
NameExamplesHold ==
    /\ (nameKind = "BusName" /\ b = <<97, 46, 98, 45, 99, 46, 97, 48, 0>>) => nameRes.ok
    /\ (nameKind = "BusName" /\ b = <<97, 46, 98, 45, 99, 46, 48, 97, 0>>) => ~nameRes.ok
    /\ (nameKind = "BusName" /\ b = <<58, 97, 46, 98, 45, 99, 46, 49, 0>>) => nameRes.ok
    /\ (nameKind = "ObjectPath" /\ b = <<47, 104, 101, 108, 108, 111, 47, 0>>) => ~nameRes.ok
    /\ (nameKind = "InterfaceName" /\ b = <<97, 46, 98, 46, 51, 0>>) => ~nameRes.ok
    /\ (nameKind = "MemberName" /\ b = <<97, 98, 99, 46, 49, 51, 0>>) => ~nameRes.ok
    /\ (nameKind = "MemberName" /\ b = <<97, 98, 99, 49, 51, 0>>) => nameRes.ok

====
